---- MODULE Spec2Model ----
(***************************************************************************)
(* Model of the two notebooks of si330_fa20:                               *)
(*   4_more_pandas.ipynb  loading a table and renaming its columns         *)
(*   scraping.ipynb       curl -> gzip -> BeautifulSoup / read_html        *)
(*                                                                         *)
(* Column names are sequences of one-character strings, so that strip and  *)
(* lower really act on characters.  File contents are sequences of bytes.  *)
(***************************************************************************)
EXTENDS Integers, Sequences, FiniteSets, TLC

VARIABLES
    \* ---- 4_more_pandas.ipynb ----
    loaded,       \* the table as read_csv produced it
    table,        \* the table after the renaming operations applied so far
    ops,          \* the renaming operations applied so far, oldest first
    cell,         \* the cell of 4_more_pandas.ipynb that runs next
    nb_df,        \* the Python name df
    nb_new_df,    \* the Python name new_df
    nb_cols,      \* the Python name cols
    \* ---- scraping.ipynb ----
    pc,           \* the cell (or statement of a cell) that runs next
    headers_txt,  \* lines of headers.txt, each a name/value pair
    disk,         \* local storage: a function from the files present to bytes
    requests,     \* HTTP requests put on the wire, oldest first
    response,     \* what came back: a status and a body, or a network error
    report,       \* what curl -v reported: status and transfer size, or error
    contents,     \* the buffer contents.read() returned, or None
    soup,         \* the buffer handed to BeautifulSoup, or None
    dfs,          \* the buffer read_html parsed, or None
    stdout,       \* what the cells printed
    error,        \* the uncaught exception that stopped the run, or NoError
    stages,       \* pipeline stages started so far, oldest first
    io            \* file accesses so far: <<"r"|"w", file name>>

nbVars == <<cell, nb_df, nb_new_df, nb_cols>>
pandasVars == <<loaded, table, ops, cell, nb_df, nb_new_df, nb_cols>>
scrapeVars == <<pc, headers_txt, disk, requests, response, report, contents,
                soup, dfs, stdout, error, stages, io>>
vars == <<loaded, table, ops, cell, nb_df, nb_new_df, nb_cols,
          pc, headers_txt, disk, requests, response,
          report, contents, soup, dfs, stdout, error, stages, io>>

\* an optional value: None, or Some(x)
None == <<>>
Some(x) == <<x>>
NoError == "no error"

\* ---- bounds -------------------------------------------------------------
MaxCols == 3
MaxOps == 3
MaxPayload == 2
MaxHeaders == 2

RECURSIVE SeqsUpTo(_, _)
SeqsUpTo(S, n) ==
    IF n = 0 THEN {<<>>}
    ELSE LET shorter == SeqsUpTo(S, n - 1)
         IN  shorter \cup {Append(s, x) : s \in shorter, x \in S}

Last(s) == s[Len(s)]

(***************************************************************************)
(* 4_more_pandas.ipynb                                                     *)
(***************************************************************************)

\* ---- column names of datasets/Admission_Predict.csv ---------------------
GRE_Score == <<"G","R","E"," ","S","c","o","r","e">>
TOEFL_Score == <<"T","O","E","F","L"," ","S","c","o","r","e">>
University_Rating == <<"U","n","i","v","e","r","s","i","t","y"," ","R","a","t","i","n","g">>
SOP == <<"S","O","P">>
LOR == <<"L","O","R">>
LOR_sp == <<"L","O","R"," ">>
CGPA == <<"C","G","P","A">>
Research == <<"R","e","s","e","a","r","c","h">>
Chance_of_Admit == <<"C","h","a","n","c","e"," ","o","f"," ","A","d","m","i","t">>
Statement_of_Purpose == <<"S","t","a","t","e","m","e","n","t"," ","o","f"," ","P","u","r","p","o","s","e">>
Letter_of_Recommendation == <<"L","e","t","t","e","r"," ","o","f"," ","R","e","c","o","m","m","e","n","d","a","t","i","o","n">>

\* ---- str.strip, str.lower -----------------------------------------------
Whitespace == {" ", "\t", "\n", "\r"}

UpperToLower ==
    "A" :> "a" @@ "B" :> "b" @@ "C" :> "c" @@ "D" :> "d" @@ "E" :> "e" @@
    "F" :> "f" @@ "G" :> "g" @@ "H" :> "h" @@ "I" :> "i" @@ "J" :> "j" @@
    "K" :> "k" @@ "L" :> "l" @@ "M" :> "m" @@ "N" :> "n" @@ "O" :> "o" @@
    "P" :> "p" @@ "Q" :> "q" @@ "R" :> "r" @@ "S" :> "s" @@ "T" :> "t" @@
    "U" :> "u" @@ "V" :> "v" @@ "W" :> "w" @@ "X" :> "x" @@ "Y" :> "y" @@
    "Z" :> "z"

RECURSIVE lstrip(_)
lstrip(s) ==
    IF s # <<>> /\ Head(s) \in Whitespace THEN lstrip(Tail(s)) ELSE s

RECURSIVE rstrip(_)
rstrip(s) ==
    IF s # <<>> /\ Last(s) \in Whitespace
    THEN rstrip(SubSeq(s, 1, Len(s) - 1))
    ELSE s

\* a plausible slip: only leading whitespace is removed
strip_leading_only(s) == lstrip(s)

\* str.strip(): whitespace removed at both ends, the inside untouched
strip(s) == rstrip(lstrip(s))

\* str.lower()
lower(s) ==
    [i \in DOMAIN s |->
        IF s[i] \in DOMAIN UpperToLower THEN UpperToLower[s[i]] ELSE s[i]]

\* ---- the mappings handed to rename(columns=...) -------------------------
\* cell 94-98
columns_1 ==
    GRE_Score :> GRE_Score @@ TOEFL_Score :> TOEFL_Score @@
    University_Rating :> University_Rating @@
    SOP :> Statement_of_Purpose @@ LOR :> Letter_of_Recommendation @@
    CGPA :> CGPA @@ Research :> Research @@
    Chance_of_Admit :> Chance_of_Admit

\* cell 136
columns_2 == LOR_sp :> Letter_of_Recommendation

\* further mappings of the same shape, to exercise rename beyond the two
\* the notebook passes: a swap, and a rule whose value is another rule's key
columns_swap == SOP :> LOR @@ LOR :> SOP
columns_chain == LOR_sp :> LOR @@ CGPA :> SOP

Mappings == {columns_1, columns_2, columns_swap, columns_chain}

\* ---- DataFrame.rename / DataFrame.columns -------------------------------
\* a plausible slip: the current name is compared after stripping it
rename_name_stripped(mapping, name) ==
    IF strip(name) \in DOMAIN mapping THEN mapping[strip(name)] ELSE name

\* rename of one label through a dict: the label itself is the lookup key
rename_name(mapping, name) ==
    IF name \in DOMAIN mapping THEN mapping[name] ELSE name

\* a plausible slip: columns without a rule are dropped from the result
rename_keep_matched(df, mapping) ==
    LET RECURSIVE keep(_)
        keep(i) ==
            IF i > Len(df.columns) THEN <<>>
            ELSE IF df.columns[i] \in DOMAIN mapping
                 THEN <<i>> \o keep(i + 1)
                 ELSE keep(i + 1)
        idx == keep(1)
    IN  [columns |-> [k \in DOMAIN idx |-> mapping[df.columns[idx[k]]]],
         data    |-> [k \in DOMAIN idx |-> df.data[idx[k]]]]

\* df.rename(columns=mapping): a new table, same data, labels looked up
rename(df, mapping) ==
    [columns |-> [i \in DOMAIN df.columns |->
                     rename_name(mapping, df.columns[i])],
     data    |-> df.data]

\* df.rename(mapper=str.strip, axis='columns')
rename_strip(df) ==
    [columns |-> [i \in DOMAIN df.columns |-> strip(df.columns[i])],
     data    |-> df.data]

\* cols = [x.lower().strip() for x in list(df.columns)]; df.columns = cols
assign_columns(df) ==
    [columns |-> [i \in DOMAIN df.columns |-> strip(lower(df.columns[i]))],
     data    |-> df.data]

\* ---- tables read_csv can produce ----------------------------------------
HeaderNames == {SOP, LOR_sp, LOR, CGPA}

\* read_csv gives every column a distinct label
Headers ==
    {h \in SeqsUpTo(HeaderNames, MaxCols) :
        Len(h) >= 1 /\ \A i, j \in DOMAIN h : h[i] = h[j] => i = j}

\* one value per column, enough to tell the columns apart
DataOf(h) == {[i \in DOMAIN h |-> i], [i \in DOMAIN h |-> Len(h) + 1 - i]}

NoMapping == <<>>

\* a name not bound to a table yet
NoTable == [columns |-> <<>>, data |-> <<>>]

NotebookIdle ==
    /\ cell = "idle"
    /\ nb_df = NoTable
    /\ nb_new_df = NoTable
    /\ nb_cols = <<>>

PandasIdle ==
    /\ loaded = [columns |-> <<>>, data |-> <<>>]
    /\ table = loaded
    /\ ops = <<>>
    /\ NotebookIdle

ScrapeIdle ==
    /\ pc = "idle"
    /\ headers_txt = <<>>
    /\ disk = <<>>
    /\ requests = <<>>
    /\ response = [kind |-> "none", status |-> 0, body |-> <<>>]
    /\ report = [kind |-> "none", status |-> 0, body |-> <<>>]
    /\ contents = None
    /\ soup = None
    /\ dfs = None
    /\ stdout = <<>>
    /\ error = NoError
    /\ stages = <<>>
    /\ io = <<>>

\* df = pd.read_csv('datasets/Admission_Predict.csv', index_col=0)
InitRename ==
    /\ \E h \in Headers : \E d \in DataOf(h) :
          loaded = [columns |-> h, data |-> d]
    /\ table = loaded
    /\ ops = <<>>
    /\ NotebookIdle
    /\ ScrapeIdle

\* new_df = df.rename(columns={...})
Rename ==
    /\ Len(ops) < MaxOps
    /\ \E mapping \in Mappings :
          /\ table' = rename(table, mapping)
          /\ ops' = Append(ops, [op |-> "rename", columns |-> mapping])
    /\ UNCHANGED <<loaded, nbVars, scrapeVars>>

\* new_df = new_df.rename(mapper=str.strip, axis='columns')
RenameStrip ==
    /\ Len(ops) < MaxOps
    /\ table' = rename_strip(table)
    /\ ops' = Append(ops, [op |-> "strip", columns |-> NoMapping])
    /\ UNCHANGED <<loaded, nbVars, scrapeVars>>

\* cols = [x.lower().strip() for x in cols]; df.columns = cols
AssignColumns ==
    /\ Len(ops) < MaxOps
    /\ table' = assign_columns(table)
    /\ ops' = Append(ops, [op |-> "assign", columns |-> NoMapping])
    /\ UNCHANGED <<loaded, nbVars, scrapeVars>>

NextRename == Rename \/ RenameStrip \/ AssignColumns

SpecRename == InitRename /\ [][NextRename]_vars

(***************************************************************************)
(* Claims about the renaming operations                                    *)
(***************************************************************************)
RenameStep == Len(ops') = Len(ops) + 1 /\ Last(ops').op = "rename"

\* C1: rename with a name-to-name mapping is exact-match: a column changes
\* its name only if its current name equals a key of the mapping character
\* for character (and then takes that key's value), every other column keeps
\* its name; "LOR " is left alone by the rule keyed on "LOR" while "SOP" is
\* renamed by the rule keyed on "SOP".
C1_RenameIsExactMatch ==
    [][RenameStep =>
        LET mapping == Last(ops').columns
            before  == table.columns
            after   == table'.columns
        IN  /\ DOMAIN after = DOMAIN before
            /\ \A i \in DOMAIN before :
                  /\ after[i] # before[i] =>
                        \E k \in DOMAIN mapping :
                            k = before[i] /\ after[i] = mapping[k]
                  /\ (\A k \in DOMAIN mapping : k # before[i]) =>
                        after[i] = before[i]
                  /\ (mapping = columns_1 /\ before[i] = LOR_sp) =>
                        after[i] = LOR_sp
                  /\ (mapping = columns_1 /\ before[i] = SOP) =>
                        after[i] = Statement_of_Purpose]_vars

\* C1 witness: the first rename of the notebook has run on a table holding
\* both "SOP" and "LOR "; the former is renamed, the latter is not.
C1_Witness ==
    /\ ops = <<[op |-> "rename", columns |-> columns_1]>>
    /\ \E i, j \in DOMAIN loaded.columns :
          /\ loaded.columns[i] = LOR_sp /\ table.columns[i] = LOR_sp
          /\ loaded.columns[j] = SOP
          /\ table.columns[j] = Statement_of_Purpose

\* C2: the mapping keyed on "LOR" leaves the column loaded as "LOR " alone
\* when applied directly, and names it "Letter of Recommendation" when all
\* column names were stripped first.
C2_StripThenRenameSucceeds ==
    \A i \in DOMAIN loaded.columns :
        loaded.columns[i] = LOR_sp =>
            /\ ops = <<[op |-> "rename", columns |-> columns_1]>> =>
                  table.columns[i] = LOR_sp
            /\ ops = <<[op |-> "strip", columns |-> NoMapping],
                       [op |-> "rename", columns |-> columns_1]>> =>
                  table.columns[i] = Letter_of_Recommendation

\* C2 witness: strip, then the mapping keyed on "LOR", on a table that was
\* loaded with a "LOR " column.
C2_Witness ==
    /\ ops = <<[op |-> "strip", columns |-> NoMapping],
               [op |-> "rename", columns |-> columns_1]>>
    /\ \E i \in DOMAIN loaded.columns :
          /\ loaded.columns[i] = LOR_sp
          /\ table.columns[i] = Letter_of_Recommendation

\* C10: every renaming operation keeps the number and order of the columns
\* and the cell values, and gives equal names equal new names (the i-th new
\* name is a function of the i-th old name).
C10_RenamingKeepsShape ==
    [][ops' # ops =>
        /\ Len(table'.columns) = Len(table.columns)
        /\ table'.data = table.data
        /\ \A i, j \in DOMAIN table.columns :
              table.columns[i] = table.columns[j] =>
                  table'.columns[i] = table'.columns[j]]_vars

\* C10 witness: all three kinds of renaming have run, names have changed,
\* two columns share a name, and the data is still the loaded data.
C10_Witness ==
    /\ {ops[k].op : k \in DOMAIN ops} = {"rename", "strip", "assign"}
    /\ table.columns # loaded.columns
    /\ Len(table.columns) = Len(loaded.columns)
    /\ table.data = loaded.data
    /\ \E i, j \in DOMAIN table.columns :
          i # j /\ table.columns[i] = table.columns[j]

(***************************************************************************)
(* scraping.ipynb                                                          *)
(***************************************************************************)

\* ---- CRC-32 as gzip uses it, the register kept as <<high, low>> halves
\* of 16 bits each so that no intermediate value exceeds 32 bits ----------
Bit(x, i) == (x \div (2 ^ i)) % 2

RECURSIVE xor(_, _)
xor(a, b) ==
    IF a = 0 THEN b
    ELSE IF b = 0 THEN a
    ELSE ((a + b) % 2) + 2 * xor(a \div 2, b \div 2)

\* the reflected polynomial 0xEDB88320, as its two halves
PolyHigh == 60856
PolyLow == 33568

\* one shift of the reflected CRC register
crc_shift(c) ==
    LET h == c[1] \div 2
        l == (c[2] \div 2) + (c[1] % 2) * 32768
    IN  IF c[2] % 2 = 1 THEN <<xor(h, PolyHigh), xor(l, PolyLow)>>
        ELSE <<h, l>>

RECURSIVE crc_shifts(_, _)
crc_shifts(c, n) == IF n = 0 THEN c ELSE crc_shifts(crc_shift(c), n - 1)

\* the usual 256-entry table: eight shifts of each byte value
crc_table == [n \in 0..255 |-> crc_shifts(<<0, n>>, 8)]

\* the register after one more byte x
crc_byte(c, x) ==
    LET t == crc_table[xor(c[2] % 256, x)]
    IN  <<xor(t[1], c[1] \div 256),
          xor(t[2], (c[2] \div 256) + (c[1] % 256) * 256)>>

\* the register after the first n bytes of s
RECURSIVE crc_update(_, _)
crc_update(s, n) ==
    IF n = 0 THEN <<65535, 65535>>
    ELSE crc_byte(crc_update(s, n - 1), s[n])

\* the CRC-32 of a byte sequence, as its four little-endian bytes
crc32(s) ==
    LET c == crc_update(s, Len(s))
        h == 65535 - c[1]
        l == 65535 - c[2]
    IN  <<l % 256, l \div 256, h % 256, h \div 256>>

\* a length as four little-endian bytes (ISIZE)
le32(n) ==
    <<n % 256, (n \div 256) % 256, (n \div 65536) % 256,
      (n \div 16777216) % 256>>

\* ---- what a server sends under Content-Encoding: gzip -------------------
\* deflate with one final stored block: BFINAL=1 BTYPE=00, LEN, NLEN, data
deflate_stored(b) ==
    <<1, Len(b) % 256, Len(b) \div 256,
      255 - (Len(b) % 256), 255 - (Len(b) \div 256)>> \o b

\* one gzip member: magic, CM=8, FLG, MTIME, XFL, OS, [name NUL], deflate
\* stream, CRC-32, ISIZE
gzip_member(b, name) ==
    <<31, 139, 8, IF name = <<>> THEN 0 ELSE 8, 0, 0, 0, 0, 0, 255>>
    \o (IF name = <<>> THEN <<>> ELSE name \o <<0>>)
    \o deflate_stored(b) \o crc32(b) \o le32(Len(b))

\* ---- gzip.open(...).read() ----------------------------------------------
Ok(data, next) == [ok |-> TRUE, data |-> data, next |-> next, err |-> NoError]
Err(e) == [ok |-> FALSE, data |-> <<>>, next |-> 0, err |-> e]

EOFError == "EOFError: Compressed file ended before the end-of-stream marker was reached"
NotGzipped == "OSError: Not a gzipped file"
UnknownMethod == "OSError: Unknown compression method"
ZlibError == "zlib.error: invalid block"
CrcFailed == "OSError: CRC check failed"
BadLength == "OSError: Incorrect length of data produced"
HuffmanBlock == "compressed block: not modelled"
FileNotFoundError == "FileNotFoundError"

\* a plausible slip: the block's data is taken one byte early
stored_data_early(a, pos, len) == SubSeq(a, pos + 4, pos + 3 + len)

\* the data of a stored block whose header byte is at pos
stored_data(a, pos, len) == SubSeq(a, pos + 5, pos + 4 + len)

\* zlib over the deflate stream starting at pos
RECURSIVE inflate(_, _, _)
inflate(a, pos, out) ==
    IF pos > Len(a) THEN Err(EOFError)
    ELSE LET bfinal == a[pos] % 2
             btype  == (a[pos] \div 2) % 4
         IN  IF btype = 3 THEN Err(ZlibError)
             ELSE IF btype # 0 THEN Err(HuffmanBlock)
             ELSE IF pos + 4 > Len(a) THEN Err(EOFError)
             ELSE LET len  == a[pos + 1] + 256 * a[pos + 2]
                      nlen == a[pos + 3] + 256 * a[pos + 4]
                  IN  IF len + nlen # 65535 THEN Err(ZlibError)
                      ELSE IF pos + 4 + len > Len(a) THEN Err(EOFError)
                      ELSE LET data == out \o stored_data(a, pos, len)
                           IN  IF bfinal = 1
                               THEN Ok(data, pos + 5 + len)
                               ELSE inflate(a, pos + 5 + len, data)

\* the position after the NUL that ends a header string, or after the end
RECURSIVE skip_string(_, _)
skip_string(a, pos) ==
    IF pos > Len(a) THEN pos
    ELSE IF a[pos] = 0 THEN pos + 1
    ELSE skip_string(a, pos + 1)

\* the first position from pos on that does not hold a zero byte
RECURSIVE skip_zeros(_, _)
skip_zeros(a, pos) ==
    IF pos <= Len(a) /\ a[pos] = 0 THEN skip_zeros(a, pos + 1) ELSE pos

\* _read_gzip_header: "eof" when nothing is left, else the position of the
\* deflate stream, or the error raised
read_gzip_header(a, pos) ==
    IF pos > Len(a) THEN [kind |-> "eof", next |-> pos, err |-> NoError]
    ELSE IF ~(pos + 1 <= Len(a) /\ a[pos] = 31 /\ a[pos + 1] = 139)
    THEN [kind |-> "error", next |-> pos, err |-> NotGzipped]
    ELSE IF pos + 9 > Len(a)
    THEN [kind |-> "error", next |-> pos, err |-> EOFError]
    ELSE IF a[pos + 2] # 8
    THEN [kind |-> "error", next |-> pos, err |-> UnknownMethod]
    ELSE
      LET flag == a[pos + 3]
          p0 == pos + 10
          \* FEXTRA: a two-byte length and that many bytes
          xok == Bit(flag, 2) = 0 \/
                 (p0 + 1 <= Len(a) /\
                  p0 + 1 + a[p0] + 256 * a[p0 + 1] <= Len(a))
          p1 == IF Bit(flag, 2) = 1 /\ xok
                THEN p0 + 2 + a[p0] + 256 * a[p0 + 1] ELSE p0
          \* FNAME, FCOMMENT: up to and including a NUL
          p2 == IF Bit(flag, 3) = 1 THEN skip_string(a, p1) ELSE p1
          p3 == IF Bit(flag, 4) = 1 THEN skip_string(a, p2) ELSE p2
          \* FHCRC: two bytes
          hok == Bit(flag, 1) = 0 \/ p3 + 1 <= Len(a)
          p4 == IF Bit(flag, 1) = 1 THEN p3 + 2 ELSE p3
      IN  IF ~xok \/ ~hok
          THEN [kind |-> "error", next |-> pos, err |-> EOFError]
          ELSE [kind |-> "member", next |-> p4, err |-> NoError]

\* a plausible slip: the trailer is skipped without being compared
read_eof_unchecked(a, pos, data) ==
    IF pos + 7 > Len(a) THEN Err(EOFError)
    ELSE Ok(data, skip_zeros(a, pos + 8))

\* _read_eof: the eight trailer bytes are compared with the CRC-32 and the
\* length of the data produced; zero padding after them is skipped
read_eof(a, pos, data) ==
    IF pos + 7 > Len(a) THEN Err(EOFError)
    ELSE IF SubSeq(a, pos, pos + 3) # crc32(data) THEN Err(CrcFailed)
    ELSE IF SubSeq(a, pos + 4, pos + 7) # le32(Len(data)) THEN Err(BadLength)
    ELSE Ok(data, skip_zeros(a, pos + 8))

\* read() to the end of the file: member after member, all or nothing
RECURSIVE read_members(_, _, _)
read_members(a, pos, out) ==
    LET h == read_gzip_header(a, pos)
    IN  IF h.kind = "eof" THEN Ok(out, pos)
        ELSE IF h.kind = "error" THEN Err(h.err)
        ELSE LET z == inflate(a, h.next, <<>>)
             IN  IF ~z.ok THEN z
                 ELSE LET t == read_eof(a, z.next, z.data)
                      IN  IF ~t.ok THEN t
                          ELSE read_members(a, t.next, out \o t.data)

gzip_read(a) == read_members(a, 1, <<>>)

\* ---- response bodies the server can send --------------------------------
\* "<tr>", standing for a page with a table row
HtmlDoc == <<60, 116, 114, 62>>

\* uncompressed page contents: short sequences over "<" and ">", and HtmlDoc
Payloads == SeqsUpTo({60, 62}, MaxPayload) \cup {HtmlDoc}

\* position of the first byte of the deflate stream in an unnamed member
DeflateStart == 11

\* valid gzip: one member, with or without a file name, or two members
GzipOf(b) == {gzip_member(b, <<>>), gzip_member(b, <<97>>)}

GzipBodies ==
    UNION {GzipOf(b) : b \in Payloads}
    \cup {gzip_member(b1, <<>>) \o gzip_member(b2, <<>>) :
            b1, b2 \in SeqsUpTo({60, 62}, 1)}

\* valid gzip followed by zero bytes
PaddedBodies == {gzip_member(b, <<>>) \o <<0>> : b \in Payloads}

\* a member cut short
Truncated(g) == {SubSeq(g, 1, k) : k \in 1..(Len(g) - 1)}

\* a member with one byte changed: magic, method, block type, LEN/NLEN,
\* data, CRC-32 or ISIZE (flags, MTIME, XFL and OS are free, so not these)
Damaged(g) ==
    {[g EXCEPT ![p] = (g[p] + 1) % 256] :
        p \in (1..3) \cup ((DeflateStart + 1)..Len(g))}
    \cup {[g EXCEPT ![DeflateStart] = 7]}

\* a member followed by something that is not a member
Trailed(g) == {g \o <<120>>, g \o <<0, 120>>}

\* non-empty artifacts that are not gzip: broken members, and plain pages
NotGzipBodies ==
    UNION {Truncated(gzip_member(b, <<>>)) \cup Damaged(gzip_member(b, <<>>))
           \cup Trailed(gzip_member(b, <<>>)) : b \in Payloads}
    \cup (Payloads \ {<<>>})

EmptyBody == <<>>

Bodies == GzipBodies \cup PaddedBodies \cup NotGzipBodies \cup {EmptyBody}

\* ---- !curl -vH @headers.txt --output outfile.gz <url> -------------------
URL == "https://bigten.org/calendar.aspx?path=football&year=2019"

\* lines of headers.txt, as the recorded request shows them
UserAgentLine ==
    [name |-> "User-Agent",
     value |-> "Mozilla/5.0 (X11; Linux x86_64) AppleWebKit/537.36 (KHTML, like Gecko) Chrome/86.0.4240.111 Safari/537.36"]
CookieLine ==
    [name |-> "Cookie", value |-> "_ga=GA1.2.3170305.1605116810"]

HeaderLines == {UserAgentLine, CookieLine}

HeaderFiles == SeqsUpTo(HeaderLines, MaxHeaders)

\* the headers curl sends of its own accord
HostHeader == [name |-> "Host", value |-> "bigten.org"]
CurlDefaults ==
    <<[name |-> "User-Agent", value |-> "curl"],
      [name |-> "Accept", value |-> "*/*"]>>

\* a plausible slip: curl's own header wins over a line of the same name
curl_headers_own_first(custom) ==
    LET Own(h) == \E k \in DOMAIN CurlDefaults : CurlDefaults[k].name = h.name
        NotOwn(h) == ~Own(h)
    IN  <<HostHeader>> \o CurlDefaults \o SelectSeq(custom, NotOwn)

\* the header block of the request: Host, then the defaults no line of the
\* file replaces, then every line of the file in file order
curl_headers(custom) ==
    LET Kept(h) == \A k \in DOMAIN custom : custom[k].name # h.name
    IN  <<HostHeader>> \o SelectSeq(CurlDefaults, Kept) \o custom

\* what can come back
NetError == [kind |-> "error", status |-> 0, body |-> <<>>]
Http(status, body) == [kind |-> "http", status |-> status, body |-> body]
NoResponse == [kind |-> "none", status |-> 0, body |-> <<>>]

Outcomes ==
    {Http(200, b) : b \in Bodies}
    \cup {Http(302, <<>>), Http(302, HtmlDoc), Http(404, HtmlDoc), NetError}

\* a plausible slip: a redirect is followed (-L), a failure retried (--retry)
curl_requests_follow(req, outcome) ==
    IF outcome.kind = "error" \/ outcome.status = 302
    THEN <<req, req>> ELSE <<req>>

\* the requests one curl run puts on the wire: no -L, no --retry
curl_requests(req, outcome) == <<req>>

\* --output: the body is written as received; nothing is written when no
\* response arrived
curl_output(d, name, outcome) ==
    IF outcome.kind = "http" THEN (name :> outcome.body) @@ d ELSE d

\* -v: the status line and the transfer size, or curl's error message
curl_report(outcome) ==
    IF outcome.kind = "http"
    THEN [kind |-> "http", status |-> outcome.status,
          size |-> Len(outcome.body)]
    ELSE [kind |-> "error", status |-> 0, size |-> 0]

\* ---- gzip.open(name): mode 'rb' -----------------------------------------
\* a plausible slip: the file is opened for writing, which truncates it
gzip_open_wb(d, name) == (name :> <<>>) @@ d

\* local storage after gzip.open(name) in the default mode 'rb'
gzip_open(d, name) == d

\* soup.tr: the first <tr> of the document, or None
soup_tr(buf) ==
    IF \E i \in 1..(Len(buf) - 3) : SubSeq(buf, i, i + 3) = HtmlDoc
    THEN "<tr>" ELSE "None"

\* ---- the cells, top to bottom; an uncaught exception ends the run -------
InitScrape ==
    /\ PandasIdle
    /\ pc = "curl"
    /\ headers_txt \in HeaderFiles
    /\ \E d \in {<<>>, "outfile2" :> HtmlDoc} : disk = d
    /\ requests = <<>>
    /\ response = NoResponse
    /\ report = NoResponse
    /\ contents = None
    /\ soup = None
    /\ dfs = None
    /\ stdout = <<>>
    /\ error = NoError
    /\ stages = <<>>
    /\ io = <<>>

\* !curl -vH @headers.txt --output outfile.gz https://bigten.org/...
Curl ==
    /\ pc = "curl"
    /\ \E outcome \in Outcomes :
          LET req == [method |-> "GET", url |-> URL,
                      headers |-> curl_headers(headers_txt)]
          IN  /\ requests' = requests \o curl_requests(req, outcome)
              /\ response' = outcome
              /\ disk' = curl_output(disk, "outfile.gz", outcome)
              /\ io' = IF outcome.kind = "http"
                       THEN Append(io, <<"w", "outfile.gz">>) ELSE io
              /\ report' = curl_report(outcome)
    /\ stages' = Append(stages, "issuer")
    /\ pc' = "gzip"
    /\ UNCHANGED <<pandasVars, headers_txt, contents, soup, dfs, stdout,
                   error>>

\* with gzip.open("outfile.gz") as contents: ... contents.read()
GzipOpenRead ==
    /\ pc = "gzip"
    /\ stages' = Append(stages, "decoder")
    /\ IF "outfile.gz" \notin DOMAIN disk
       THEN /\ error' = FileNotFoundError
            /\ pc' = "stopped"
            /\ UNCHANGED <<disk, io, contents>>
       ELSE /\ disk' = gzip_open(disk, "outfile.gz")
            /\ io' = Append(io, <<"r", "outfile.gz">>)
            /\ LET r == gzip_read(disk'["outfile.gz"])
               IN  IF r.ok
                   THEN /\ contents' = Some(r.data)
                        /\ pc' = "soup"
                        /\ UNCHANGED error
                   ELSE /\ error' = r.err
                        /\ pc' = "stopped"
                        /\ UNCHANGED contents
    /\ UNCHANGED <<pandasVars, headers_txt, requests, response, report, soup,
                   dfs, stdout>>

\* soup = BeautifulSoup(contents.read(), 'lxml'); print(soup.tr)
SoupPrint ==
    /\ pc = "soup"
    /\ stages' = Append(stages, "extractor")
    /\ soup' = contents
    /\ stdout' = Append(stdout, soup_tr(contents[1]))
    /\ pc' = "read_html"
    /\ UNCHANGED <<pandasVars, headers_txt, disk, requests, response, report,
                   contents, dfs, error, io>>

\* pd.read_html("outfile2")
ReadHtml ==
    /\ pc = "read_html"
    /\ stages' = Append(stages, "extractor")
    /\ IF "outfile2" \notin DOMAIN disk
       THEN /\ error' = "ValueError: No tables found"
            /\ pc' = "stopped"
            /\ UNCHANGED <<dfs, io, stdout>>
       ELSE /\ io' = Append(io, <<"r", "outfile2">>)
            /\ dfs' = Some(disk["outfile2"])
            /\ stdout' = Append(stdout, "tables")
            /\ pc' = "xpath"
            /\ UNCHANGED error
    /\ UNCHANGED <<pandasVars, headers_txt, disk, requests, response, report,
                   contents, soup>>

\* the last code cell holds an XPath and a CSS selector, not Python
XPath ==
    /\ pc = "xpath"
    /\ error' = "SyntaxError"
    /\ pc' = "stopped"
    /\ UNCHANGED <<pandasVars, headers_txt, disk, requests, response, report,
                   contents, soup, dfs, stdout, stages, io>>

NextScrape == Curl \/ GzipOpenRead \/ SoupPrint \/ ReadHtml \/ XPath

SpecScrape == InitScrape /\ [][NextScrape]_vars

(***************************************************************************)
(* Claims about the scraping pipeline                                      *)
(***************************************************************************)
\* s occurs in t as a subsequence: same elements, same order, same count
RECURSIVE IsSubseq(_, _)
IsSubseq(s, t) ==
    IF s = <<>> THEN TRUE
    ELSE IF t = <<>> THEN FALSE
    ELSE IF Head(s) = Head(t) THEN IsSubseq(Tail(s), Tail(t))
    ELSE IsSubseq(s, Tail(t))

\* the decoder has been applied to an artifact
Decoded == pc \notin {"curl", "gzip"} /\ "outfile.gz" \in DOMAIN disk

DecodeErrors ==
    {EOFError, NotGzipped, UnknownMethod, ZlibError, CrcFailed, BadLength}

\* C3: every line of headers.txt is in the one request with the same name
\* and the same value, in file order, none dropped, altered or merged.
C3_HeadersAttachedUnmodified ==
    pc # "curl" =>
        /\ Len(requests) >= 1
        /\ IsSubseq(headers_txt, requests[1].headers)
        /\ \A k \in DOMAIN requests[1].headers :
              LET h == requests[1].headers[k]
              IN  (\E i \in DOMAIN headers_txt : headers_txt[i].name = h.name)
                    => \E i \in DOMAIN headers_txt : headers_txt[i] = h

\* C3 witness: a request went out for a header file of two lines, one of
\* them a User-Agent line (a header curl would otherwise set itself).
C3_Witness ==
    /\ pc # "curl"
    /\ Len(headers_txt) >= 2
    /\ \E i \in DOMAIN headers_txt : headers_txt[i] = UserAgentLine
    /\ \E k \in DOMAIN requests[1].headers :
          requests[1].headers[k] = UserAgentLine

\* C4: whenever the artifact holds gzip(b), what the decoder returns is b.
C4_GzipRoundTrip ==
    \A b \in Payloads :
        (Decoded /\ disk["outfile.gz"] \in GzipOf(b)) => contents = Some(b)

\* C4 witness: the artifact holds the gzip of "<tr>" and was decoded to it.
C4_Witness ==
    /\ Decoded
    /\ disk["outfile.gz"] = gzip_member(HtmlDoc, <<>>)
    /\ contents = Some(HtmlDoc)

\* C5 as stated: for every artifact that is not valid gzip the decoder fails
\* and returns no buffer, and BeautifulSoup is not reached.
C5_NotGzipAlwaysFails ==
    (Decoded /\ disk["outfile.gz"] \in NotGzipBodies \cup {EmptyBody}) =>
        /\ error \in DecodeErrors
        /\ contents = None
        /\ soup = None

\* C5 amended: for every non-empty artifact that is not valid gzip the
\* decoder fails with its own error, the run stops there, no buffer is
\* returned and BeautifulSoup is not reached; an empty artifact, and valid
\* gzip followed by zero bytes, are read without error.
C5_NonEmptyNotGzipFails ==
    Decoded =>
        /\ disk["outfile.gz"] \in NotGzipBodies =>
              /\ error \in DecodeErrors
              /\ pc = "stopped"
              /\ contents = None
              /\ soup = None
              /\ stages = <<"issuer", "decoder">>
        /\ disk["outfile.gz"] = EmptyBody => contents = Some(<<>>)
        /\ disk["outfile.gz"] \in PaddedBodies => contents # None

\* C5 witness: an artifact whose data no longer matches its CRC-32 was
\* decoded, and the run stopped on that error.
C5_Witness ==
    /\ Decoded
    /\ disk["outfile.gz"] \in NotGzipBodies
    /\ error = CrcFailed
    /\ pc = "stopped"

\* C6: one run issues exactly one GET for the URL whatever comes back, the
\* outcome is what curl reports, and a received body is saved as received.
C6_ExactlyOneRequest ==
    /\ Len(requests) <= 1
    /\ pc # "curl" =>
          /\ Len(requests) = 1
          /\ requests[1].method = "GET"
          /\ requests[1].url = URL
          /\ report.kind = response.kind
          /\ report.status = response.status
          /\ response.kind = "http" =>
                /\ report.size = Len(response.body)
                /\ disk["outfile.gz"] = response.body
          /\ response.kind = "error" => "outfile.gz" \notin DOMAIN disk

\* C6 witness: the server answered with a redirect and the run went on to
\* the next cell with a single request issued.
C6_Witness ==
    /\ pc \notin {"curl", "gzip"}
    /\ response.kind = "http"
    /\ response.status = 302
    /\ Len(requests) = 1

\* C7 as stated: the stages run in the order issuer, decoder, extractor and
\* each runs at most once.
C7_StagesOnceInOrder ==
    \E n \in 0..3 : stages = SubSeq(<<"issuer", "decoder", "extractor">>, 1, n)

\* C8 as stated: the only artifact read is outfile.gz, written once by the
\* request issuer and read back once.
C8_OnlyIssuerArtifactRead ==
    /\ \A k \in DOMAIN io : io[k][2] = "outfile.gz"
    /\ Cardinality({k \in DOMAIN io : io[k][1] = "w"}) <= 1
    /\ Cardinality({k \in DOMAIN io : io[k][1] = "r"}) <= 1
    /\ \A k \in DOMAIN io : io[k][1] = "r" => \E j \in 1..(k - 1) : io[j][1] = "w"

\* C9: once the request issuer has run, no step changes local storage, and
\* every file access is a read.
C9_NoWriteAfterIssuer ==
    [][pc # "curl" =>
        /\ disk' = disk
        /\ \/ io' = io
           \/ /\ Len(io') = Len(io) + 1
              /\ SubSeq(io', 1, Len(io)) = io
              /\ Last(io')[1] = "r"]_vars

\* C9 witness: decoder and both extractors have run on a non-empty
\* artifact, which still holds the bytes received.
C9_Witness ==
    /\ pc = "xpath"
    /\ response.body # <<>>
    /\ disk["outfile.gz"] = response.body
    /\ soup # None
    /\ dfs # None

(***************************************************************************)
(* 4_more_pandas.ipynb, its cells top to bottom.  The cells that only      *)
(* display something (!cat, pd.read_csv??, new_df.columns, df.rename?,     *)
(* pd.read_html?) bind no name and are left out.                           *)
(***************************************************************************)
\* the first column of the file, which index_col=0 turns into the index
Serial_No == <<"S","e","r","i","a","l"," ","N","o",".">>

\* pd.read_csv(file): every column of the file is a column of the table
read_csv(t) ==
    [columns |-> <<Serial_No>> \o t.columns, data |-> <<0>> \o t.data]

\* pd.read_csv(file, index_col=0): the first column becomes the index
read_csv_index_col_0(t) == t

\* a plausible slip: rename works in place (as with inplace=True)
rename_receiver_inplace(d, mapping) == rename(d, mapping)

\* the table d.rename(columns=mapping) was called on, after the call: rename
\* builds a new table and leaves its receiver as it was
rename_receiver(d, mapping) == d

\* tables pd.read_html can find in a page: here, of one column
PageTables ==
    {[columns |-> h, data |-> <<1>>] : h \in {g \in Headers : Len(g) = 1}}

InitNotebook ==
    /\ \E h \in Headers : \E d \in DataOf(h) :
          loaded = [columns |-> h, data |-> d]
    /\ table = loaded
    /\ ops = <<>>
    /\ cell = "read_csv"
    /\ nb_df = NoTable
    /\ nb_new_df = NoTable
    /\ nb_cols = <<>>
    /\ ScrapeIdle

\* df = pd.read_csv('datasets/Admission_Predict.csv')
CellReadCsv ==
    /\ cell = "read_csv"
    /\ nb_df' = read_csv(loaded)
    /\ cell' = "read_csv_index_col"
    /\ UNCHANGED <<loaded, table, ops, nb_new_df, nb_cols, scrapeVars>>

\* df = pd.read_csv('datasets/Admission_Predict.csv', index_col=0)
CellReadCsvIndexCol ==
    /\ cell = "read_csv_index_col"
    /\ nb_df' = read_csv_index_col_0(loaded)
    /\ cell' = "rename_columns"
    /\ UNCHANGED <<loaded, table, ops, nb_new_df, nb_cols, scrapeVars>>

\* new_df=df.rename(columns={'GRE Score':'GRE Score', ...})
CellRenameColumns ==
    /\ cell = "rename_columns"
    /\ nb_new_df' = rename(nb_df, columns_1)
    /\ nb_df' = rename_receiver(nb_df, columns_1)
    /\ cell' = "rename_lor"
    /\ UNCHANGED <<loaded, table, ops, nb_cols, scrapeVars>>

\* new_df=new_df.rename(columns={'LOR ': 'Letter of Recommendation'})
CellRenameLor ==
    /\ cell = "rename_lor"
    /\ nb_new_df' = rename(nb_new_df, columns_2)
    /\ cell' = "rename_strip"
    /\ UNCHANGED <<loaded, table, ops, nb_df, nb_cols, scrapeVars>>

\* new_df=new_df.rename(mapper=str.strip, axis='columns')
CellRenameStrip ==
    /\ cell = "rename_strip"
    /\ nb_new_df' = rename_strip(nb_new_df)
    /\ cell' = "assign_columns"
    /\ UNCHANGED <<loaded, table, ops, nb_df, nb_cols, scrapeVars>>

\* cols = list(df.columns); cols = [x.lower().strip() for x in cols];
\* df.columns=cols
CellAssignColumns ==
    /\ cell = "assign_columns"
    /\ nb_cols' = assign_columns(nb_df).columns
    /\ nb_df' = assign_columns(nb_df)
    /\ cell' = "read_html"
    /\ UNCHANGED <<loaded, table, ops, nb_new_df, scrapeVars>>

\* df=pd.read_html('https://en.wikipedia.org/wiki/List_of_earthquakes_...'):
\* df becomes a list of tables, or the call raises and df stays
CellReadHtml ==
    /\ cell = "read_html"
    /\ \/ \E t \in PageTables : nb_df' = <<t>>
       \/ nb_df' = nb_df
    /\ cell' = "done"
    /\ UNCHANGED <<loaded, table, ops, nb_new_df, nb_cols, scrapeVars>>

NextNotebook ==
    \/ CellReadCsv \/ CellReadCsvIndexCol \/ CellRenameColumns
    \/ CellRenameLor \/ CellRenameStrip \/ CellAssignColumns \/ CellReadHtml

SpecNotebook == InitNotebook /\ [][NextNotebook]_vars

\* C11: rename leaves the table it is called on unchanged: from the first
\* rename until the assignment df carries the names as loaded; the assignment
\* then gives df, and cols, the lower-cased stripped loaded names, while
\* new_df is not touched by it; df never holds the lower-cased form of a
\* name that only the renames introduced.
Lowered(names) == [i \in DOMAIN names |-> strip(lower(names[i]))]

C11_RenameLeavesReceiver ==
    /\ cell \in {"rename_lor", "rename_strip", "assign_columns"} =>
          /\ nb_df = loaded
          /\ \A i \in DOMAIN loaded.columns :
                loaded.columns[i] = LOR_sp => nb_df.columns[i] = LOR_sp
    /\ cell = "read_html" =>
          /\ nb_cols = Lowered(loaded.columns)
          /\ nb_df.columns = nb_cols
          /\ nb_df.data = loaded.data
          /\ \A i \in DOMAIN nb_df.columns :
                nb_df.columns[i] \notin {lower(Statement_of_Purpose),
                                      lower(Letter_of_Recommendation)}
          /\ nb_new_df = rename_strip(rename(rename(loaded, columns_1),
                                          columns_2))

\* C11 witness: the table was loaded with "SOP" and "LOR ", new_df now has
\* the long names, and df has "sop" and "lor" after the assignment.
C11_Witness ==
    /\ cell = "read_html"
    /\ \E i, j \in DOMAIN loaded.columns :
          /\ loaded.columns[i] = SOP
          /\ loaded.columns[j] = LOR_sp
          /\ nb_new_df.columns[i] = Statement_of_Purpose
          /\ nb_new_df.columns[j] = Letter_of_Recommendation
          /\ nb_df.columns[i] = lower(SOP)
          /\ nb_df.columns[j] = lower(LOR)

====
